---------------------------- MODULE Spec2Model ----------------------------
(***************************************************************************)
(* Model of src/error.rs of exif-rs: the Error enum, its Display and       *)
(* source() implementations, the From<io::Error> conversion,               *)
(* Error::distill_partial_result, and PartialResult (a boxed pair of a     *)
(* Mutex<Exif> and a Vec<Error>) with new, into_inner and Debug.           *)
(*                                                                         *)
(* An Error value is owned by one owner.  While the owner holds it, the    *)
(* threads of Threads borrow it (&Error) and format it with Display or     *)
(* Debug; the owner may call source() and finally consumes the value with  *)
(* distill_partial_result, which needs the value by move and so runs only  *)
(* when no borrow is outstanding.                                          *)
(***************************************************************************)
EXTENDS Integers, Sequences, FiniteSets, TLC

(* ------------------------------ bounds -------------------------------- *)

\* Largest number of fields of a Document drawn as input.
MaxFields == 2
\* Longest suppressed-error list drawn as input.
MaxErrors == 2
\* Total number of formatting calls the threads make on one Error.
MaxFmtCalls == 3
\* Largest field count and error count of the rendering specification.
MaxCount == 11

Threads == {"t1", "t2"}

(* ------------------------------ values -------------------------------- *)

\* &'static str payloads.
Msgs == {"bad tag", "bad type"}

\* std::io::Error values, by kind; desc is what io::Error's Display writes.
IoErrors ==
    { [kind |-> "UnexpectedEof", desc |-> "unexpected end of file"],
      [kind |-> "PermissionDenied", desc |-> "permission denied"] }

\* The variants of Error that carry a &'static str.
MsgVariants ==
    {"InvalidFormat", "NotFound", "BlankValue", "TooBig", "NotSupported",
     "UnexpectedValue"}

MsgError(v, m) == [variant |-> v, msg |-> m]

\* impl From<io::Error> for Error
Error_from(io) == [variant |-> "Io", err |-> io]

\* crate::Exif, as far as this file uses it: the list of its fields.
FieldVals == {"Make", "Model"}

RECURSIVE SeqsUpTo(_, _)
SeqsUpTo(S, n) ==
    IF n = 0 THEN {<<>>}
    ELSE LET shorter == SeqsUpTo(S, n - 1)
         IN  shorter \cup {Append(s, x) : s \in shorter, x \in S}

Exifs == {[fields |-> fs] : fs \in SeqsUpTo(FieldVals, MaxFields)}

(* ------------------------------ Mutex --------------------------------- *)

\* std::sync::Mutex<T>: the protected data, the lock and the poison flag.
Mutex_new(v) == [data |-> v, locked |-> FALSE, poisoned |-> FALSE]

\* Variant of Mutex_lock: try_lock(), which returns Err(WouldBlock) at once
\* when the lock is held.
Mutex_try_lock(m) ==
    IF m.locked THEN "wouldblock"
    ELSE IF m.poisoned THEN "poisoned"
    ELSE "acquired"

\* Mutex::lock() as seen by the caller: it waits while the lock is held,
\* and once it has the lock returns Err(PoisonError) if the flag is set.
Mutex_lock(m) ==
    IF m.locked THEN "wait"
    ELSE IF m.poisoned THEN "poisoned"
    ELSE "acquired"

\* Variant of MutexGuard_drop: the guard is forgotten, the lock stays held.
MutexGuard_forget(m, panicking) == m

\* Drop of the MutexGuard: releases the lock, and poisons the mutex if the
\* thread is unwinding from a panic that began while it held the guard.
MutexGuard_drop(m, panicking) ==
    [m EXCEPT !.locked = FALSE, !.poisoned = @ \/ panicking]

\* Mutex::into_inner(): by value, without locking; Err if poisoned.
Mutex_into_inner(m) ==
    IF m.poisoned THEN [tag |-> "Err"] ELSE [tag |-> "Ok", value |-> m.data]

(* --------------------------- PartialResult ---------------------------- *)

\* PartialResult::new
PartialResult_new(exif, errors) ==
    [mutex |-> Mutex_new(exif), errors |-> errors]

RECURSIVE Reversed(_)
Reversed(q) == IF q = <<>> THEN <<>> ELSE Append(Reversed(Tail(q)), Head(q))

\* Variant of PartialResult_into_inner: the error list comes back in
\* reverse order.
PartialResult_into_inner_rev(pr) ==
    LET r == Mutex_into_inner(pr.mutex)
    IN  IF r.tag = "Ok"
        THEN [tag |-> "Ok", exif |-> r.value, errors |-> Reversed(pr.errors)]
        ELSE [tag |-> "panic"]

\* PartialResult::into_inner; expect() panics on a poisoned mutex.
PartialResult_into_inner(pr) ==
    LET r == Mutex_into_inner(pr.mutex)
    IN  IF r.tag = "Ok"
        THEN [tag |-> "Ok", exif |-> r.value, errors |-> pr.errors]
        ELSE [tag |-> "panic"]

PartialResultError(pr) == [variant |-> "PartialResult", pr |-> pr]


(* ----------------------------- formatting ----------------------------- *)

Digits == <<"0", "1", "2", "3", "4", "5", "6", "7", "8", "9">>

\* "{}" of a usize: decimal, most significant digit first, no padding.
RECURSIVE FmtUsize(_)
FmtUsize(n) ==
    IF n < 10 THEN Digits[n + 1]
    ELSE FmtUsize(n \div 10) \o Digits[(n % 10) + 1]

\* "{:?}" of a &str: the text in double quotes (the messages modelled hold
\* no character that Debug escapes).
DebugStr(s) == "\"" \o s \o "\""

\* Display and Debug of std::io::Error for an error built from an ErrorKind.
IoDisplay(io) == io.desc
IoDebug(io) == "Kind(" \o io.kind \o ")"

\* exif.fields().len()
FieldCount(exif) == Len(exif.fields)

RECURSIVE DebugError(_)
RECURSIVE DebugVec(_, _)

\* impl fmt::Debug for PartialResult, given the Exif behind the guard.
PartialResult_debug(exif, errors) ==
    "PartialResult(Exif(" \o FmtUsize(FieldCount(exif)) \o " fields), "
        \o "[" \o DebugVec(errors, 1) \o "]" \o ")"

\* #[derive(Debug)] on Error: Variant(payload).
DebugError(e) ==
    IF e.variant = "Io" THEN "Io(" \o IoDebug(e.err) \o ")"
    ELSE IF e.variant = "PartialResult"
    THEN "PartialResult("
             \o PartialResult_debug(e.pr.mutex.data, e.pr.errors) \o ")"
    ELSE e.variant \o "(" \o DebugStr(e.msg) \o ")"

\* "{:?}" of the elements of a Vec<Error> from index i on, ", "-separated.
DebugVec(errors, i) ==
    IF i > Len(errors) THEN ""
    ELSE DebugError(errors[i])
             \o (IF i < Len(errors) THEN ", " ELSE "")
             \o DebugVec(errors, i + 1)

\* impl fmt::Display for Error, the arms that need no lock.
Display_plain(e) ==
    CASE e.variant = "InvalidFormat" -> e.msg
      [] e.variant = "Io" -> IoDisplay(e.err)
      [] e.variant = "NotFound" -> "No Exif data found in " \o e.msg
      [] e.variant = "BlankValue" -> e.msg
      [] e.variant = "TooBig" -> e.msg
      [] e.variant = "NotSupported" -> e.msg
      [] e.variant = "UnexpectedValue" -> e.msg

\* Variant of Display_partial: the two counts in each other's place.
Display_partial_swapped(exif, errors) ==
    "Partial result with " \o FmtUsize(Len(errors)) \o " fields and "
        \o FmtUsize(FieldCount(exif)) \o " errors"

\* impl fmt::Display for Error, the PartialResult arm, given the Exif
\* behind the guard.
Display_partial(exif, errors) ==
    "Partial result with " \o FmtUsize(FieldCount(exif)) \o " fields and "
        \o FmtUsize(Len(errors)) \o " errors"

\* Variant of Error_source: no variant has a cause.
Error_source_none(e) == <<>>

\* impl error::Error for Error: source(), as an Option.
Error_source(e) ==
    CASE e.variant = "InvalidFormat" -> <<>>
      [] e.variant = "Io" -> <<e.err>>
      [] e.variant = "NotFound" -> <<>>
      [] e.variant = "BlankValue" -> <<>>
      [] e.variant = "TooBig" -> <<>>
      [] e.variant = "NotSupported" -> <<>>
      [] e.variant = "UnexpectedValue" -> <<>>
      [] e.variant = "PartialResult" -> <<>>

\* Variant of Error_distill_partial_result: f is not called.
Error_distill_no_handler(e) ==
    IF e.variant = "PartialResult"
    THEN LET r == PartialResult_into_inner(e.pr)
         IN  IF r.tag = "Ok"
             THEN [ret |-> [tag |-> "Ok", exif |-> r.exif], handled |-> <<>>]
             ELSE [ret |-> [tag |-> "panic"], handled |-> <<>>]
    ELSE [ret |-> [tag |-> "Err", error |-> e], handled |-> <<>>]

\* Variant of Error_distill_partial_result: f is called with an empty list
\* for an Error that is no PartialResult.
Error_distill_always_handler(e) ==
    IF e.variant = "PartialResult"
    THEN LET r == PartialResult_into_inner(e.pr)
         IN  IF r.tag = "Ok"
             THEN [ret |-> [tag |-> "Ok", exif |-> r.exif],
                   handled |-> <<r.errors>>]
             ELSE [ret |-> [tag |-> "panic"], handled |-> <<>>]
    ELSE [ret |-> [tag |-> "Err", error |-> e], handled |-> << <<>> >>]

\* Error::distill_partial_result: the value returned and the arguments the
\* handler f is called with, in order.
Error_distill_partial_result(e) ==
    IF e.variant = "PartialResult"
    THEN LET r == PartialResult_into_inner(e.pr)
         IN  IF r.tag = "Ok"
             THEN [ret |-> [tag |-> "Ok", exif |-> r.exif],
                   handled |-> <<r.errors>>]
             ELSE [ret |-> [tag |-> "panic"], handled |-> <<>>]
    ELSE [ret |-> [tag |-> "Err", error |-> e], handled |-> <<>>]

(* ------------------------------- state -------------------------------- *)

VARIABLES
    phase,      \* "decode": the Decoder runs; "ok": it returned Ok(exif);
                \* "held": the owner holds an Error; "done": the owner
                \* consumed it
    dec,        \* the Decoder's pass: mode, Exif so far, suppressed errors
    err,        \* the Error the owner holds: <<e>>, or <<>> before the
                \* Decoder returns one and once it is moved out
    input,      \* what the Error was built from
    pc,         \* per thread: where it is in its formatting call
    kind,       \* per thread: "Display" or "Debug", the call it makes
    buf,        \* per thread: <<>>, or <<the text its call wrote to its
                \* Formatter>>
    contended,  \* per thread: its call found the guard held
    calls,      \* formatting calls begun so far
    reports,    \* the <<field count, error count>> pairs calls have read
    srcRes,     \* <<>> until source() is called, then <<its Option>>
    result,     \* <<>> until distill_partial_result returns, then <<ret>>
    handled,    \* the arguments the handler f was called with, in order
    inner       \* <<>> until into_inner returns, then <<what it returned>>

vars ==
    <<phase, dec, err, input, pc, kind, buf, contended, calls, reports,
      srcRes, result, handled, inner>>

Kinds == {"Display", "Debug"}

\* The errors a list of suppressed errors is drawn from.
SuppressedErrors ==
    { MsgError("InvalidFormat", "bad tag"),
      MsgError("UnexpectedValue", "bad type"),
      Error_from([kind |-> "UnexpectedEof",
                  desc |-> "unexpected end of file"]) }

ErrLists == SeqsUpTo(SuppressedErrors, MaxErrors)

NoDecoder == [mode |-> "none", fields |-> <<>>, errors |-> <<>>]

\* The threads idle, nothing formatted, nothing called yet.
Fresh ==
    /\ pc = [t \in Threads |-> "idle"]
    /\ kind = [t \in Threads |-> "Display"]
    /\ buf = [t \in Threads |-> <<>>]
    /\ contended = [t \in Threads |-> FALSE]
    /\ calls = 0
    /\ reports = {}
    /\ srcRes = <<>>
    /\ result = <<>>
    /\ handled = <<>>
    /\ inner = <<>>

\* The owner holds an Error of any variant: a message variant, Io through
\* From<io::Error>, or PartialResult through PartialResult::new.
Init ==
    /\ phase = "held"
    /\ dec = NoDecoder
    /\ \/ \E v \in MsgVariants, m \in Msgs :
            /\ err = <<MsgError(v, m)>>
            /\ input = [from |-> "msg", variant |-> v, msg |-> m]
       \/ \E io \in IoErrors :
            /\ err = <<Error_from(io)>>
            /\ input = [from |-> "io", io |-> io]
       \/ \E d \in Exifs, e \in ErrLists :
            /\ err = <<PartialResultError(PartialResult_new(d, e))>>
            /\ input = [from |-> "new", exif |-> d, errors |-> e]
    /\ Fresh

IsPartial == err # <<>> /\ err[1].variant = "PartialResult"

TheMutex == err[1].pr.mutex

SetMutex(m) == <<[err[1] EXCEPT !.pr.mutex = m]>>

(* ------------------------- formatting calls --------------------------- *)

\* Display or Debug of an Error that is not a PartialResult: no lock, the
\* text is a function of the value.
FmtPlain(t, k) ==
    /\ phase = "held" /\ err # <<>> /\ ~IsPartial
    /\ pc[t] = "idle" /\ calls < MaxFmtCalls
    /\ calls' = calls + 1
    /\ kind' = [kind EXCEPT ![t] = k]
    /\ buf' = [buf EXCEPT ![t] =
                  IF k = "Display" THEN <<Display_plain(err[1])>>
                  ELSE <<DebugError(err[1])>>]
    /\ contended' = [contended EXCEPT ![t] = FALSE]
    /\ UNCHANGED <<phase, dec, err, input, pc, reports, srcRes, result,
                   handled, inner>>

\* Display or Debug of Error::PartialResult is entered: the next thing the
\* call does is lock the mutex.
FmtBegin(t, k) ==
    /\ phase = "held" /\ IsPartial
    /\ pc[t] = "idle" /\ calls < MaxFmtCalls
    /\ calls' = calls + 1
    /\ kind' = [kind EXCEPT ![t] = k]
    /\ buf' = [buf EXCEPT ![t] = <<>>]
    /\ contended' = [contended EXCEPT ![t] = FALSE]
    /\ pc' = [pc EXCEPT ![t] = "lock"]
    /\ UNCHANGED <<phase, dec, err, input, reports, srcRes, result,
                   handled, inner>>

\* lock() finds the mutex free: the call holds the guard, or, the mutex
\* being poisoned, expect() panics and the guard inside the PoisonError is
\* dropped by a thread that began to panic after it got the lock.
FmtLock(t) ==
    /\ pc[t] \in {"lock", "blocked"}
    /\ Mutex_lock(TheMutex) \in {"acquired", "poisoned"}
    /\ IF Mutex_lock(TheMutex) = "acquired"
       THEN /\ err' = SetMutex([TheMutex EXCEPT !.locked = TRUE])
            /\ pc' = [pc EXCEPT ![t] = "write"]
       ELSE /\ err' = SetMutex(MutexGuard_drop(TheMutex, FALSE))
            /\ pc' = [pc EXCEPT ![t] = "panicked"]
    /\ UNCHANGED <<phase, dec, input, kind, buf, contended, calls, reports,
                   srcRes, result, handled, inner>>

\* lock() finds the mutex held: the thread waits for it; an Err for any
\* other reason than poison does not exist for lock(), and expect() would
\* panic on one.
FmtBlock(t) ==
    /\ pc[t] = "lock"
    /\ Mutex_lock(TheMutex) \notin {"acquired", "poisoned"}
    /\ pc' = [pc EXCEPT ![t] =
                 IF Mutex_lock(TheMutex) = "wait" THEN "blocked"
                 ELSE "panicked"]
    /\ contended' = [contended EXCEPT ![t] = TRUE]
    /\ UNCHANGED <<phase, dec, err, input, kind, buf, calls, reports,
                   srcRes, result, handled, inner>>

\* Variant of FmtWrite: the Exif is taken out of the mutex to be counted,
\* and an empty one is left behind.
FmtWrite_take(t) ==
    /\ pc[t] = "write"
    /\ LET exif == TheMutex.data
           errors == err[1].pr.errors
       IN  /\ buf' = [buf EXCEPT ![t] =
                         IF kind[t] = "Display"
                         THEN <<Display_partial(exif, errors)>>
                         ELSE <<"PartialResult("
                                  \o PartialResult_debug(exif, errors)
                                  \o ")">>]
           /\ reports' = reports \cup {<<FieldCount(exif), Len(errors)>>}
    /\ err' = SetMutex([TheMutex EXCEPT !.data = [fields |-> <<>>]])
    /\ pc' = [pc EXCEPT ![t] = "unlock"]
    /\ UNCHANGED <<phase, dec, input, kind, contended, calls, srcRes,
                   result, handled, inner>>

\* write!: with the guard held, the field count and the error list are
\* read and the text goes to the Formatter.
FmtWrite(t) ==
    /\ pc[t] = "write"
    /\ LET exif == TheMutex.data
           errors == err[1].pr.errors
       IN  /\ buf' = [buf EXCEPT ![t] =
                         IF kind[t] = "Display"
                         THEN <<Display_partial(exif, errors)>>
                         ELSE <<"PartialResult("
                                  \o PartialResult_debug(exif, errors)
                                  \o ")">>]
           /\ reports' = reports \cup {<<FieldCount(exif), Len(errors)>>}
    /\ pc' = [pc EXCEPT ![t] = "unlock"]
    /\ UNCHANGED <<phase, dec, err, input, kind, contended, calls, srcRes,
                   result, handled, inner>>

\* The guard, a temporary of the match arm, is dropped and fmt returns.
FmtUnlock(t) ==
    /\ pc[t] = "unlock"
    /\ err' = SetMutex(MutexGuard_drop(TheMutex, FALSE))
    /\ pc' = [pc EXCEPT ![t] = "idle"]
    /\ UNCHANGED <<phase, dec, input, kind, buf, contended, calls, reports,
                   srcRes, result, handled, inner>>

(* ------------------------------ the owner ----------------------------- *)

\* source() on the Error held.
CallSource ==
    /\ phase = "held" /\ err # <<>> /\ srcRes = <<>>
    /\ srcRes' = <<Error_source(err[1])>>
    /\ UNCHANGED <<phase, dec, err, input, pc, kind, buf, contended, calls,
                   reports, result, handled, inner>>

\* No thread borrows the Error: none is inside a formatting call.
NoBorrow == \A t \in Threads : pc[t] \in {"idle", "panicked"}

\* distill_partial_result(self, f): the Error is moved in, so no borrow of
\* it is left.
Distill ==
    /\ phase = "held" /\ err # <<>> /\ NoBorrow
    /\ LET r == Error_distill_partial_result(err[1])
       IN  /\ result' = <<r.ret>>
           /\ handled' = r.handled
    /\ err' = <<>>
    /\ phase' = "done"
    /\ UNCHANGED <<dec, input, pc, kind, buf, contended, calls, reports,
                   srcRes, inner>>

\* The owner matches Error::PartialResult(pr) and calls pr.into_inner().
IntoInner ==
    /\ phase = "held" /\ IsPartial /\ NoBorrow
    /\ inner' = <<PartialResult_into_inner(err[1].pr)>>
    /\ err' = <<>>
    /\ phase' = "done"
    /\ UNCHANGED <<dec, input, pc, kind, buf, contended, calls, reports,
                   srcRes, result, handled>>

ThreadStep(t) ==
    \/ \E k \in Kinds : FmtPlain(t, k)
    \/ \E k \in Kinds : FmtBegin(t, k)
    \/ FmtLock(t)
    \/ FmtBlock(t)
    \/ FmtWrite(t)
    \/ FmtUnlock(t)

Next ==
    \/ \E t \in Threads : ThreadStep(t)
    \/ CallSource
    \/ Distill
    \/ IntoInner

Spec == Init /\ [][Next]_vars

\* Every formatting call that has begun runs on: a scheduled thread takes
\* its next step, and a thread waiting for the mutex gets it once it stays
\* free.
InCall(t) ==
    FmtLock(t) \/ FmtBlock(t) \/ FmtWrite(t) \/ FmtUnlock(t)

\* source() takes no guard and is left out: the threads format the Error
\* and the owner consumes it.
LiveNext ==
    \/ \E t \in Threads : ThreadStep(t)
    \/ Distill
    \/ IntoInner

LiveSpec ==
    Init /\ [][LiveNext]_vars /\ \A t \in Threads : WF_vars(InCall(t))

(* --------------------- rendering of large counts ---------------------- *)

\* An Exif of n fields, a list of m suppressed errors.
ExifOfLen(n) == [fields |-> [i \in 1..n |-> "Make"]]
ErrorsOfLen(m) ==
    [i \in 1..m |-> IF i % 2 = 1 THEN MsgError("InvalidFormat", "bad tag")
                    ELSE MsgError("UnexpectedValue", "bad type")]

\* As Init, with field and error counts of one and two digits.
FmtInit ==
    /\ phase = "held"
    /\ dec = NoDecoder
    /\ \/ \E v \in MsgVariants, m \in Msgs :
            /\ err = <<MsgError(v, m)>>
            /\ input = [from |-> "msg", variant |-> v, msg |-> m]
       \/ \E io \in IoErrors :
            /\ err = <<Error_from(io)>>
            /\ input = [from |-> "io", io |-> io]
       \/ \E n \in 0..MaxCount, m \in 0..MaxCount :
            /\ err = <<PartialResultError(
                          PartialResult_new(ExifOfLen(n), ErrorsOfLen(m)))>>
            /\ input = [from |-> "new", exif |-> ExifOfLen(n),
                        errors |-> ErrorsOfLen(m)]
    /\ Fresh

FmtSpec == FmtInit /\ [][Next]_vars

(* ----------------------------- the Decoder ---------------------------- *)

\* The modes of a decode pass: fail-fast, or continue-on-error.
Modes == {"failfast", "continue"}

\* Variant of RecoverableErrors: a pass that failed with a PartialResult of
\* its own is among the failures suppressed.
RecoverableErrors_nested ==
    SuppressedErrors \cup
        { PartialResultError(
              PartialResult_new([fields |-> <<>>],
                                <<MsgError("InvalidFormat", "bad tag")>>)) }

\* The failures a decode step can meet and a best-effort pass suppresses.
RecoverableErrors == SuppressedErrors

\* The failures that end the pass in either mode.
FatalErrors ==
    { MsgError("NotFound", "bad tag"),
      Error_from([kind |-> "PermissionDenied", desc |-> "permission denied"]) }

DecodeInit ==
    /\ phase = "decode"
    /\ \E mode \in Modes : dec = [mode |-> mode, fields |-> <<>>,
                                  errors |-> <<>>]
    /\ err = <<>>
    /\ input = [from |-> "none"]
    /\ Fresh

\* A field is decoded and added to the Document.
DecodeField(v) ==
    /\ phase = "decode" /\ Len(dec.fields) < MaxFields
    /\ dec' = [dec EXCEPT !.fields = Append(@, v)]
    /\ UNCHANGED <<phase, err, input, pc, kind, buf, contended, calls,
                   reports, srcRes, result, handled, inner>>

\* A recoverable failure in continue-on-error mode: it is kept, in the order
\* met, and the pass goes on.
DecodeSuppress(e) ==
    /\ phase = "decode" /\ dec.mode = "continue"
    /\ Len(dec.errors) < MaxErrors
    /\ dec' = [dec EXCEPT !.errors = Append(@, e)]
    /\ UNCHANGED <<phase, err, input, pc, kind, buf, contended, calls,
                   reports, srcRes, result, handled, inner>>

\* What an Error returned by the Decoder was built from.
InputOf(e) ==
    CASE e.variant = "Io" -> [from |-> "io", io |-> e.err]
      [] e.variant = "PartialResult" ->
            [from |-> "new", exif |-> e.pr.mutex.data, errors |-> e.pr.errors]
      [] OTHER -> [from |-> "msg", variant |-> e.variant, msg |-> e.msg]

\* A failure that is returned directly: any failure in fail-fast mode, a
\* fatal one in either mode.
DecodeFail(e) ==
    /\ phase = "decode"
    /\ e \in FatalErrors \/ dec.mode = "failfast"
    /\ err' = <<e>>
    /\ input' = InputOf(e)
    /\ phase' = "held"
    /\ UNCHANGED <<dec, pc, kind, buf, contended, calls, reports, srcRes,
                   result, handled, inner>>

\* The pass ends: Ok(exif) if nothing was suppressed, and otherwise
\* Err(Error::PartialResult(PartialResult::new(exif, errors))).
DecodeFinish ==
    /\ phase = "decode"
    /\ IF dec.errors = <<>>
       THEN /\ phase' = "ok"
            /\ UNCHANGED <<err, input>>
       ELSE /\ phase' = "held"
            /\ err' = <<PartialResultError(
                           PartialResult_new([fields |-> dec.fields],
                                             dec.errors))>>
            /\ input' = [from |-> "new", exif |-> [fields |-> dec.fields],
                         errors |-> dec.errors]
    /\ UNCHANGED <<dec, pc, kind, buf, contended, calls, reports, srcRes,
                   result, handled, inner>>

Decode ==
    \/ \E v \in FieldVals : DecodeField(v)
    \/ \E e \in RecoverableErrors : DecodeSuppress(e)
    \/ \E e \in RecoverableErrors \cup FatalErrors : DecodeFail(e)
    \/ DecodeFinish

DecodeSpec == DecodeInit /\ [][Decode \/ Next]_vars

(* ------------------------------- claims ------------------------------- *)

\* The Error as it was built, for a variant other than PartialResult.
GivenError ==
    IF input.from = "io" THEN [variant |-> "Io", err |-> input.io]
    ELSE [variant |-> input.variant, msg |-> input.msg]

\* C1: distill_partial_result on Error::PartialResult(new(d, e)) returns
\* Ok(d) with d the Exif given to new, and calls the handler exactly once,
\* with e: the same elements in the same order.
C1_DistillPartial ==
    (result # <<>> /\ input.from = "new") =>
        /\ result[1] = [tag |-> "Ok", exif |-> input.exif]
        /\ handled = <<input.errors>>

C1_Witness ==
    /\ result # <<>> /\ input.from = "new"
    /\ result[1].tag = "Ok" /\ Len(result[1].exif.fields) >= 2
    /\ Len(handled) = 1 /\ Len(handled[1]) >= 2
    /\ handled[1][1] # handled[1][2]
    /\ calls >= 1

\* C2: distill_partial_result on an Error of any other variant returns Err
\* with that Error, variant and payload as they were, and never calls the
\* handler.
C2_DistillOther ==
    (result # <<>> /\ input.from \in {"msg", "io"}) =>
        /\ result[1] = [tag |-> "Err", error |-> GivenError]
        /\ handled = <<>>

C2_Witness ==
    /\ result # <<>> /\ input.from = "io"
    /\ result[1].tag = "Err" /\ result[1].error.variant = "Io"
    /\ handled = <<>>

\* C3: into_inner gives back the Exif and the error list given to new,
\* length and order kept, whatever formatting calls came in between.
C3_RoundTrip ==
    inner # <<>> =>
        inner[1] = [tag |-> "Ok", exif |-> input.exif,
                    errors |-> input.errors]

C3_Witness ==
    /\ inner # <<>> /\ inner[1].tag = "Ok"
    /\ Len(inner[1].errors) >= 2 /\ inner[1].errors[1] # inner[1].errors[2]
    /\ calls >= 2
    /\ \E t \in Threads : kind[t] = "Debug" /\ buf[t] # <<>>
    /\ \E t \in Threads : kind[t] = "Display" /\ buf[t] # <<>>

\* What Display is to write for the Error held, by variant; <<>> for Io,
\* whose text is that of the io::Error.
ExpectedDisplay ==
    CASE input.from = "io" -> <<>>
      [] input.from = "msg" /\ input.variant = "NotFound" ->
            <<"No Exif data found in " \o input.msg>>
      [] input.from = "msg" /\ input.variant # "NotFound" -> <<input.msg>>
      [] input.from = "new" ->
            <<"Partial result with " \o ToString(Len(input.exif.fields))
                \o " fields and " \o ToString(Len(input.errors))
                \o " errors">>

\* C4: Display writes the message as it is for InvalidFormat, BlankValue,
\* TooBig, NotSupported and UnexpectedValue, "No Exif data found in " and
\* the container for NotFound, and "Partial result with N fields and M
\* errors" for a PartialResult of N fields and M suppressed errors.
C4_Display ==
    \A t \in Threads :
        (kind[t] = "Display" /\ buf[t] # <<>> /\ input.from \in {"msg", "new"})
            => buf[t] = ExpectedDisplay

C4_Witness ==
    \E t \in Threads :
        /\ kind[t] = "Display" /\ pc[t] = "idle"
        /\ buf[t] = <<"Partial result with 11 fields and 10 errors">>

\* C5: source() returns a cause exactly for the Io variant, and the cause
\* is the io::Error the Error was converted from.
C5_Source ==
    srcRes # <<>> =>
        srcRes[1] = (IF input.from = "io" THEN <<input.io>> ELSE <<>>)

C5_Witness ==
    /\ srcRes # <<>> /\ input.from = "io"
    /\ srcRes[1] = <<input.io>>

\* C6: formatting leaves the PartialResult as it was: the Exif and the
\* error list are unchanged after any number of calls, and every call reads
\* the same field count and the same error count.
C6_FormatFrame ==
    IsPartial =>
        /\ TheMutex.data = input.exif
        /\ err[1].pr.errors = input.errors
        /\ reports \subseteq {<<Len(input.exif.fields), Len(input.errors)>>}

C6_Witness ==
    /\ IsPartial /\ calls >= 3
    /\ \A t \in Threads : pc[t] = "idle" /\ buf[t] # <<>>
    /\ \E t \in Threads : kind[t] = "Debug"
    /\ reports = {<<2, 2>>}

NotPartial(e) == e.variant # "PartialResult"

ExpectedText(k) ==
    IF k = "Display" THEN ExpectedDisplay
    ELSE <<"PartialResult(PartialResult(Exif("
             \o ToString(Len(input.exif.fields)) \o " fields), ["
             \o DebugVec(input.errors, 1) \o "]))">>

Holders == {t \in Threads : pc[t] \in {"write", "unlock"}}

GuardDiscipline ==
    /\ IsPartial =>
          /\ Cardinality(Holders) <= 1
          /\ TheMutex.locked <=> Holders # {}
          /\ ~TheMutex.poisoned
    /\ \A t \in Threads : pc[t] # "panicked"
    /\ result # <<>> => result[1].tag # "panic"
    /\ inner # <<>> => inner[1].tag # "panic"

\* C10: the guard is held only inside a formatting call and by at most one
\* at a time, is released before the call returns and is never poisoned;
\* every formatting call that has begun returns, however the calls
\* interleave; and into_inner and distill_partial_result, run by the owner
\* afterwards, do not panic.
C10_GuardReleased ==
    /\ []GuardDiscipline
    /\ \A t \in Threads :
          (pc[t] \in {"lock", "blocked", "write", "unlock"}) ~> (pc[t] = "idle")

C10_Witness ==
    /\ phase = "done" /\ result # <<>> /\ result[1].tag = "Ok"
    /\ calls >= 3
    /\ \E t \in Threads : contended[t] /\ buf[t] # <<>>

=============================================================================
